---- MODULE Spec2Model ----
(***************************************************************************)
(* A model of the psd crate's top-level document type (src/lib.rs):        *)
(*   - Psd::from_bytes, the five-stage construction of a document;         *)
(*   - Psd::get_group_sub_layers over the group map built by the layer     *)
(*     and mask parser;                                                    *)
(*   - Psd::flatten_layers_rgba and Psd::flattened_pixel, the recursive,   *)
(*     memoised compositor.                                                *)
(* Stack indices, filtered-list positions and pixel coordinates are        *)
(* 0-based as in the source; TLA+ sequences are 1-based, so element i of   *)
(* a Rust Vec is s[i + 1] here.                                            *)
(***************************************************************************)
EXTENDS Integers, Sequences, FiniteSets, TLC

VARIABLES
    psd,     \* the parsed document (immutable once constructed)
    call,    \* the most recent flatten_layers_rgba call: inputs, locals,
             \* result, and whether an earlier call used another filter (mixed)
    fresh,   \* one flatten_layers_rgba call made through a handle of the
             \* document on which nothing else is ever called: its filter
             \* and its result
    parse,   \* Psd::from_bytes: the input and the stages run so far
    grp      \* the layer and mask parser's group reconstruction

vars == <<psd, call, fresh, parse, grp>>

(***************************************************************************)
(* Bounds of the model.                                                    *)
(***************************************************************************)
MaxLayers == 2
CanvasWidth == 2
CanvasHeight == 1
MaxRecords == 4

None == "None"

(***************************************************************************)
(* Integer conversions.  The layer rectangle is four signed 32-bit values  *)
(* and the comparisons are made after `as usize`, which sign-extends and   *)
(* reinterprets: a negative v becomes 2^64 + v, above every pixel          *)
(* coordinate (a coordinate is below 2^32).  The two comparisons of a      *)
(* coordinate c >= 0 with `v as usize` are stated on v itself.             *)
(***************************************************************************)
\* c < (v as usize)
LtAsUsize(c, v) == v < 0 \/ c < v

\* c > (v as usize)
GtAsUsize(c, v) == v >= 0 /\ c > v

(***************************************************************************)
(* Pixels and buffers.  A pixel is <<r, g, b, a>>; a buffer is the flat    *)
(* byte sequence [R,G,B,A, R,G,B,A, ...] in row-major order.               *)
(***************************************************************************)
RECURSIVE Repeat(_, _)
Repeat(s, n) == IF n = 0 THEN <<>> ELSE s \o Repeat(s, n - 1)

width(p) == p.width

height(p) == p.height

layers(p) == p.layers

layer_by_idx(p, idx) == layers(p)[idx + 1]

\* Psd::rgba(): the whole-canvas image, produced by the image data section.
Psd_rgba(p) == p.image

\* PsdLayer::rgba(): canvas-sized (flattened_pixel indexes it by canvas
\* coordinates); each layer carries one colour.
PsdLayer_rgba(p, layer) ==
    Repeat(<<layer.red, 0, 0, layer.alpha>>, width(p) * height(p))

\* blend::apply_opacity: alpha' = alpha * opacity / 255.
apply_opacity(pixel, opacity) ==
    <<pixel[1], pixel[2], pixel[3], (pixel[4] * opacity) \div 255>>

\* blend::blend_pixels: source-over compositing of top over bottom,
\* whatever the layer's blend mode.
blend_pixels(top, bottom) ==
    LET as == top[4]
        ab == (bottom[4] * (255 - as)) \div 255
        ao == as + ab
        ch(i) == IF ao = 0 THEN 0 ELSE (top[i] * as + bottom[i] * ab) \div ao
    IN  <<ch(1), ch(2), ch(3), ao>>

(***************************************************************************)
(* Psd::flatten_layers_rgba and Psd::flattened_pixel.                      *)
(*                                                                         *)
(* A filter is modelled by the set of stack indices it accepts.  The       *)
(* locals of a call are threaded through the pixel loop as the record st:  *)
(*   cache      the memo table, filtered-list position -> layer RGBA;      *)
(*   rgba_calls the positions for which layer.rgba() was called, in order; *)
(*   visits     one record per flattened_pixel invocation: its position k, *)
(*              the pixel (x, y), whether the layer's RGBA was read        *)
(*              (read), and the pixel it returned (px).                    *)
(***************************************************************************)

\* A flatten without the early return for a document without layers.
NoLayersNever(p) == FALSE

\* self.layers().is_empty()
NoLayers(p) == layers(p) = <<>>

\* A first filter that lets a clipping mask stand in for visibility only.
FlattenableStrict(layer) ==
    layer.opacity > 0 /\ (layer.visible \/ layer.clipping_mask)

\* The first .filter(): transparent and invisible layers are dropped.
Flattenable(layer) ==
    (layer.opacity > 0 /\ layer.visible) \/ layer.clipping_mask

\* The second .filter(): the caller's predicate, given (idx, layer).
FilterAccepts(f, idx, layer) == idx \in f

\* The lazy iterator chain layers().iter().enumerate().filter().filter()
\* .collect(): list holds the stack indices collected, calls the indices
\* the caller's predicate was invoked with.
RECURSIVE SelectLayers(_, _, _, _)
SelectLayers(p, f, idx, acc) ==
    IF idx >= Len(layers(p)) THEN acc
    ELSE LET layer == layer_by_idx(p, idx)
         IN  IF ~Flattenable(layer)
             THEN SelectLayers(p, f, idx + 1, acc)
             ELSE LET called == [acc EXCEPT !.calls = Append(@, idx)]
                  IN  IF FilterAccepts(f, idx, layer)
                      THEN SelectLayers(p, f, idx + 1,
                               [called EXCEPT !.list = Append(@, idx)])
                      ELSE SelectLayers(p, f, idx + 1, called)

\* A transparent canvas of one byte per pixel.
ShortCanvas(p) == Repeat(<<0>>, width(p) * height(p))

\* vec![0; pixel_count as usize * 4]
TransparentCanvas(p) == Repeat(<<0>>, width(p) * height(p) * 4)

\* A memo table that outlives the call.
KeptCache(dropped) == dropped

\* let cached_layer_rgba = RefCell::new(HashMap::new()): the table a call
\* starts with, given the table the previous call dropped when it returned.
NewCache(dropped) == <<>>

\* The out-of-bounds test at the head of flattened_pixel.
OutOfBounds(layer, pixel_left, pixel_top) ==
    \/ LtAsUsize(pixel_left, layer.layer_left)
    \/ GtAsUsize(pixel_left, layer.layer_right)
    \/ LtAsUsize(pixel_top, layer.layer_top)
    \/ GtAsUsize(pixel_top, layer.layer_bottom)

\* The test that ends the recursion with the layer's own pixel.
FullyOpaque(pixel, layer) == pixel[4] = 255 /\ layer.opacity = 255

\* cached_layer_rgba after the "calculate and cache it" step for position k.
CacheLayer(p, layer, k, st) ==
    IF k \in DOMAIN st.cache
    THEN st
    ELSE [st EXCEPT !.cache = (k :> PsdLayer_rgba(p, layer)) @@ @,
                    !.rgba_calls = Append(@, k)]

Visit(st, k, coord, read, px) ==
    [st EXCEPT !.visits = @ \cup
        {[k |-> k, x |-> coord[1], y |-> coord[2], read |-> read, px |-> px]}]

RECURSIVE flattened_pixel(_, _, _, _, _)
flattened_pixel(p, k, coord, ltf, st) ==
    LET layer == layer_by_idx(p, ltf[k + 1])
        pixel_left == coord[1]
        pixel_top == coord[2]
    IN  IF OutOfBounds(layer, pixel_left, pixel_top)
        THEN IF k + 1 < Len(ltf)
             THEN LET below == flattened_pixel(p, k + 1, coord, ltf, st)
                  IN  [px |-> below.px,
                       st |-> Visit(below.st, k, coord, FALSE, below.px)]
             ELSE [px |-> <<0, 0, 0, 0>>,
                   st |-> Visit(st, k, coord, FALSE, <<0, 0, 0, 0>>)]
        ELSE LET st1 == CacheLayer(p, layer, k, st)
                 layer_rgba == st1.cache[k]
                 pixel_idx == ((width(p) * pixel_top) + pixel_left) * 4
                 pixel == apply_opacity(
                              SubSeq(layer_rgba, pixel_idx + 1, pixel_idx + 4),
                              layer.opacity)
             IN  IF FullyOpaque(pixel, layer)
                 THEN [px |-> pixel, st |-> Visit(st1, k, coord, TRUE, pixel)]
                 ELSE IF k + 1 < Len(ltf)
                 THEN LET below == flattened_pixel(p, k + 1, coord, ltf, st1)
                          final_pixel == blend_pixels(pixel, below.px)
                      IN  [px |-> final_pixel,
                           st |-> Visit(below.st, k, coord, TRUE, final_pixel)]
                 ELSE [px |-> pixel, st |-> Visit(st1, k, coord, TRUE, pixel)]

\* for pixel_idx in 0..pixel_count { ... flattened_pixels.push(...) }
RECURSIVE PixelLoop(_, _, _, _, _)
PixelLoop(p, ltf, pixel_idx, st, flattened_pixels) ==
    IF pixel_idx >= width(p) * height(p)
    THEN [st |-> st, flattened_pixels |-> flattened_pixels]
    ELSE LET left == pixel_idx % width(p)
             top == pixel_idx \div width(p)
             r == flattened_pixel(p, 0, <<left, top>>, ltf, st)
         IN  PixelLoop(p, ltf, pixel_idx + 1, r.st, flattened_pixels \o r.px)

NoCall ==
    [called |-> FALSE, filter |-> {}, layers_to_flatten |-> <<>>,
     filter_calls |-> <<>>, cached_layer_rgba |-> <<>>, rgba_calls |-> <<>>,
     visits |-> {}, result |-> <<>>, mixed |-> FALSE]

flatten_layers_rgba(p, f, dropped) ==
    IF NoLayers(p)
    THEN [NoCall EXCEPT !.called = TRUE, !.filter = f, !.result = Psd_rgba(p)]
    ELSE LET sel == SelectLayers(p, f, 0, [list |-> <<>>, calls |-> <<>>])
         IN  IF sel.list = <<>>
             THEN [NoCall EXCEPT !.called = TRUE, !.filter = f,
                                 !.filter_calls = sel.calls,
                                 !.result = TransparentCanvas(p)]
             ELSE LET r == PixelLoop(p, sel.list, 0,
                               [cache |-> NewCache(dropped), rgba_calls |-> <<>>,
                                visits |-> {}], <<>>)
                  IN  [called |-> TRUE, filter |-> f,
                       layers_to_flatten |-> sel.list,
                       filter_calls |-> sel.calls,
                       cached_layer_rgba |-> r.st.cache,
                       rgba_calls |-> r.st.rgba_calls,
                       visits |-> r.st.visits,
                       result |-> r.flattened_pixels,
                       mixed |-> FALSE]

(***************************************************************************)
(* The documents the compositor is run on.                                 *)
(***************************************************************************)
BaseLayer ==
    [opacity |-> 255, visible |-> TRUE, clipping_mask |-> FALSE,
     layer_left |-> 0, layer_top |-> 0,
     layer_right |-> CanvasWidth, layer_bottom |-> CanvasHeight,
     red |-> 0, alpha |-> 255]

\* Opacity and pixel alpha.
PaintKinds ==
    {[BaseLayer EXCEPT !.opacity = c[1], !.alpha = c[2]] :
        c \in {<<255, 255>>, <<128, 255>>}}

\* Visibility, clipping and zero opacity.
FlagKinds ==
    {[BaseLayer EXCEPT !.opacity = c[1], !.visible = c[2],
                       !.clipping_mask = c[3]] :
        c \in {<<0, TRUE, FALSE>>, <<255, FALSE, FALSE>>, <<0, TRUE, TRUE>>}}

\* Bounding rectangles: degenerate in x, degenerate in y, and a layer that
\* starts left of the canvas.
RectKinds ==
    {[BaseLayer EXCEPT !.layer_left = c[1], !.layer_top = c[2],
                       !.layer_right = c[3], !.layer_bottom = c[4]] :
        c \in {<<0, 0, 0, CanvasHeight>>, <<0, 0, CanvasWidth, 0>>,
               <<-1, 0, CanvasWidth, CanvasHeight>>}}

LayerKinds == PaintKinds \cup FlagKinds \cup RectKinds

\* Each layer gets its own colour, so that the output tells the layers apart.
Coloured(ls) == [i \in 1..Len(ls) |-> [ls[i] EXCEPT !.red = 50 * i]]

LayerLists == UNION {[1..n -> LayerKinds] : n \in 0..MaxLayers}

\* The whole-canvas image.  Only a document without layer records is
\* ever asked for it, so only such documents vary it.
Images(ls) ==
    {Repeat(px, CanvasWidth * CanvasHeight) :
        px \in IF ls = <<>> THEN {<<0, 0, 0, 0>>, <<7, 8, 9, 255>>}
                            ELSE {<<7, 8, 9, 255>>}}

Docs ==
    UNION {{[width |-> CanvasWidth, height |-> CanvasHeight,
             layers |-> Coloured(ls), image |-> img] : img \in Images(ls)} :
           ls \in LayerLists}

\* The filters tried on a document: every set of its stack indices (and, on
\* a document without layers, a filter that would accept index 0).
Filters(p) ==
    SUBSET (0..(IF Len(layers(p)) = 0 THEN 0 ELSE Len(layers(p)) - 1))

NoFresh == [called |-> FALSE, filter |-> {}, result |-> <<>>]

Init ==
    /\ psd \in Docs
    /\ call = NoCall
    /\ fresh = NoFresh
    /\ parse = None
    /\ grp = None

\* psd.flatten_layers_rgba(filter), after any number of earlier calls.
Flatten(f) ==
    /\ call' = [flatten_layers_rgba(psd, f, call.cached_layer_rgba)
                   EXCEPT !.mixed = call.called /\ (call.mixed \/ call.filter # f)]
    /\ UNCHANGED <<psd, fresh, parse, grp>>

\* psd.flatten_layers_rgba(filter) through the untouched handle.
FlattenFresh(f) ==
    /\ ~fresh.called
    /\ fresh' = [called |-> TRUE, filter |-> f,
                 result |-> flatten_layers_rgba(psd, f, <<>>).result]
    /\ UNCHANGED <<psd, call, parse, grp>>

Next ==
    \/ \E f \in Filters(psd) : Flatten(f)
    \/ \E f \in Filters(psd) : FlattenFresh(f)

Spec == Init /\ [][Next]_vars

(***************************************************************************)
(* Properties of the compositor, stated on the record of the last call.    *)
(***************************************************************************)
Range(s) == {s[i] : i \in 1..Len(s)}

Zeroes(n) == [i \in 1..n |-> 0]

\* The candidate at position k of the last call's filtered list.
Candidate(k) == layer_by_idx(psd, call.layers_to_flatten[k + 1])

\* (x, y) lies in the layer's bounding rectangle, right and bottom exclusive.
InsideBounds(layer, x, y) ==
    /\ layer.layer_left <= x /\ x < layer.layer_right
    /\ layer.layer_top <= y /\ y < layer.layer_bottom

\* C1: the candidate list runs from the topmost selected layer downward:
\* position 0 holds the highest selected stack index and every later
\* position a lower one.
C1_TopmostFirst ==
    call.called =>
        \A i, j \in 1..Len(call.layers_to_flatten) :
            i < j => call.layers_to_flatten[i] > call.layers_to_flatten[j]

\* C2 as stated: on every document, a filter that rejects everything gives
\* width*height*4 zero bytes.
C2_RejectAllIsTransparent ==
    (call.called /\ call.filter = {}) =>
        call.result = Zeroes(width(psd) * height(psd) * 4)

\* C2 as amended: on every document with at least one layer, a filter that
\* rejects everything gives width*height*4 zero bytes.
C2_RejectAllWithLayers ==
    (call.called /\ call.filter = {} /\ Len(layers(psd)) > 0) =>
        call.result = Zeroes(width(psd) * height(psd) * 4)

\* A reject-all call on a document with layers, on which the filter was asked.
C2_Witness ==
    /\ call.called /\ call.filter = {}
    /\ Len(layers(psd)) = MaxLayers
    /\ Len(call.filter_calls) > 0

\* C3: on a document without layers a flatten returns the bytes of rgba(),
\* whatever the filter, and the filter is never invoked.
C3_NoLayersIsRgba ==
    (call.called /\ Len(layers(psd)) = 0) =>
        /\ call.result = psd.image
        /\ call.filter_calls = <<>>

\* A flatten of a layerless document whose image is not blank, with a filter
\* that would accept.
C3_Witness ==
    /\ call.called /\ Len(layers(psd)) = 0
    /\ call.filter # {}
    /\ psd.image # Zeroes(width(psd) * height(psd) * 4)

\* C4: a layer's RGBA is read for a pixel only when the pixel lies in the
\* layer's rectangle with right and bottom exclusive; a degenerate layer is
\* therefore never read.
C4_TakenOnlyInsideBounds ==
    \A v \in call.visits :
        v.read => InsideBounds(Candidate(v.k), v.x, v.y)

\* The stack indices passing the first test, spelled out.
PassFirstTest ==
    {i \in 0..(Len(layers(psd)) - 1) :
        LET l == layer_by_idx(psd, i)
        IN  (l.opacity > 0 /\ l.visible) \/ l.clipping_mask}

\* C6: the layers taking part are exactly those passing the first test and
\* accepted by the filter; the filter is invoked exactly once for each layer
\* passing the first test, with the layer's stack index.
C6_SelectedLayers ==
    (call.called /\ Len(layers(psd)) > 0) =>
        /\ Range(call.layers_to_flatten) = PassFirstTest \cap call.filter
        /\ Len(call.layers_to_flatten) =
               Cardinality(Range(call.layers_to_flatten))
        /\ Range(call.filter_calls) = PassFirstTest
        /\ Len(call.filter_calls) = Cardinality(PassFirstTest)

\* A call on a document whose bottom layer fails the first test and whose
\* next layer passes it through its clipping mask alone; the filter accepts
\* stack index 1 and rejects index 0, the position that layer has in the
\* filtered list.
C6_Witness ==
    /\ call.called
    /\ 0 \notin PassFirstTest
    /\ 0 \notin call.filter
    /\ call.layers_to_flatten = <<1>>
    /\ call.filter_calls = <<1>>
    /\ layer_by_idx(psd, 1).clipping_mask /\ layer_by_idx(psd, 1).opacity = 0

\* C7: a flatten gives what the same filter gives on a handle nothing was
\* called on before: earlier calls, with the same or another filter, leave
\* no trace.
C7_NoCrossCallLeak ==
    (call.called /\ fresh.called /\ call.filter = fresh.filter) =>
        call.result = fresh.result

\* A call that followed a call with another filter, itself having filled
\* the memo table, compared with the fresh handle.
C7_Witness ==
    /\ call.called /\ fresh.called /\ call.filter = fresh.filter
    /\ call.mixed
    /\ Len(call.rgba_calls) = MaxLayers

\* C9: a layer's RGBA is computed at most once per call, and only when some
\* canvas pixel inside the layer's bounds reached the layer.
C9_ComputedOnceWhenReached ==
    call.called =>
        \A i \in 1..Len(call.rgba_calls) :
            LET k == call.rgba_calls[i]
            IN  /\ \A j \in 1..Len(call.rgba_calls) :
                       call.rgba_calls[j] = k => j = i
                /\ \E v \in call.visits :
                       /\ v.k = k /\ v.read
                       /\ InsideBounds(Candidate(k), v.x, v.y)

\* The pixel position k's layer holds at (x, y), scaled by its opacity.
Scaled(k, x, y) ==
    LET layer == Candidate(k)
    IN  <<layer.red, 0, 0, (layer.alpha * layer.opacity) \div 255>>

\* C10: for a pixel inside a candidate's bounds, flattened_pixel returns the
\* opacity-scaled pixel itself, without resolving anything below, when its
\* alpha and the layer's opacity are 255; otherwise the blend of it over
\* what the candidates below resolve to, or the scaled pixel itself when
\* there is no candidate below.
C10_ShortCircuitOrBlend ==
    \A x \in 0..(width(psd) - 1), y \in 0..(height(psd) - 1) :
        \A k \in 0..(Len(call.layers_to_flatten) - 1) :
            LET at(kk) == {v \in call.visits : v.k = kk /\ v.x = x /\ v.y = y}
                layer == Candidate(k)
                pixel == Scaled(k, x, y)
            IN  (at(k) # {} /\ InsideBounds(layer, x, y)) =>
                    \A v \in at(k) :
                        IF pixel[4] = 255 /\ layer.opacity = 255
                        THEN v.px = pixel /\ at(k + 1) = {}
                        ELSE IF k + 1 < Len(call.layers_to_flatten)
                        THEN \E b \in at(k + 1) :
                                 v.px = blend_pixels(pixel, b.px)
                        ELSE v.px = pixel

(***************************************************************************)
(* Psd::from_bytes.  The five section parsers are not part of the model:   *)
(* a byte buffer is represented by whether it starts with the signature    *)
(* and by what each parser returns when it is run on it ("Ok" or the name  *)
(* of an error).                                                           *)
(***************************************************************************)
\* The parsers in the order a changed from_bytes would run them if it
\* followed the field order of struct Psd.
StagesInFieldOrder ==
    <<"MajorSections", "FileHeaderSection", "ImageResourcesSection",
      "LayerAndMaskInformationSection", "ImageDataSection">>

\* The parsers in the order from_bytes runs them.
Stages ==
    <<"MajorSections", "FileHeaderSection", "LayerAndMaskInformationSection",
      "ImageDataSection", "ImageResourcesSection">>

\* .map_err(PsdError::...): the variant each parser's error is wrapped in.
ErrorVariant(stage) ==
    CASE stage = "MajorSections" -> "HeaderError"
      [] stage = "FileHeaderSection" -> "HeaderError"
      [] stage = "LayerAndMaskInformationSection" -> "LayerError"
      [] stage = "ImageDataSection" -> "ImageError"
      [] stage = "ImageResourcesSection" -> "ResourceError"

\* The errors each parser can return.
StageErrors ==
    [MajorSections |-> {"InvalidVersion", "TruncatedSection"},
     FileHeaderSection |-> {"InvalidDepth", "InvalidColorMode"},
     LayerAndMaskInformationSection |-> {"UnbalancedGroups", "TruncatedChannels"},
     ImageDataSection |-> {"UnsupportedCompression", "LengthMismatch"},
     ImageResourcesSection |-> {"InvalidBlockSignature", "TruncatedBlock"}]

\* MajorSections::from_bytes checks the signature first.
StageResult(bytes, stage) ==
    IF stage = "MajorSections" /\ ~bytes.signature
    THEN "InvalidSignature"
    ELSE bytes.returns[stage]

\* from_bytes from the i-th parser on: each `?` returns the wrapped error at
\* once; Ok(Psd { .. }) is built after the last one.  value holds the Psd
\* produced, if any.
RECURSIVE RunStages(_, _, _)
RunStages(bytes, i, ran) ==
    IF i > Len(Stages)
    THEN [ok |-> TRUE, ran |-> ran, variant |-> None, error |-> None,
          value |-> <<[file_header_section |-> "FileHeaderSection",
                       image_resources_section |-> "ImageResourcesSection",
                       layer_and_mask_information_section |->
                           "LayerAndMaskInformationSection",
                       image_data_section |-> "ImageDataSection"]>>]
    ELSE LET stage == Stages[i]
             r == StageResult(bytes, stage)
         IN  IF r # "Ok"
             THEN [ok |-> FALSE, ran |-> Append(ran, stage),
                   variant |-> ErrorVariant(stage), error |-> r, value |-> <<>>]
             ELSE RunStages(bytes, i + 1, Append(ran, stage))

from_bytes(bytes) == RunStages(bytes, 1, <<>>)

StageNames == {Stages[i] : i \in 1..Len(Stages)}

ByteBuffers ==
    [signature : BOOLEAN,
     returns : {r \in [StageNames -> {"Ok"} \cup UNION {StageErrors[n] : n \in StageNames}] :
                   \A n \in StageNames : r[n] \in {"Ok"} \cup StageErrors[n]}]

InitParse ==
    /\ parse \in [bytes : ByteBuffers, done : {FALSE}, result : {None}]
    /\ psd = None
    /\ call = NoCall
    /\ fresh = NoFresh
    /\ grp = None

\* Psd::from_bytes(bytes)
FromBytes ==
    /\ ~parse.done
    /\ parse' = [parse EXCEPT !.done = TRUE, !.result = from_bytes(parse.bytes)]
    /\ UNCHANGED <<psd, call, fresh, grp>>

NextParse == FromBytes

SpecParse == InitParse /\ [][NextParse]_vars

\* The parsers in the order the claim names them.
ClaimedOrder ==
    <<"MajorSections", "FileHeaderSection", "LayerAndMaskInformationSection",
      "ImageDataSection", "ImageResourcesSection">>

\* What the n-th parser of the claimed order returns on the buffer.
ClaimedResult(n) ==
    IF n = 1 /\ ~parse.bytes.signature
    THEN "InvalidSignature"
    ELSE parse.bytes.returns[ClaimedOrder[n]]

ClaimedVariant(n) ==
    <<"HeaderError", "HeaderError", "LayerError", "ImageError",
      "ResourceError">>[n]

\* C5: from_bytes returns Ok(Psd) only when all five parsers succeed;
\* otherwise it returns the error of the first parser that fails, wrapped in
\* that parser's variant, runs no later parser and produces no Psd.  Bytes
\* without the signature give HeaderError(InvalidSignature).
C5_FirstFailureWins ==
    parse.done =>
        LET failing == {n \in 1..5 : ClaimedResult(n) # "Ok"}
            r == parse.result
        IN  /\ r.ok <=> failing = {}
            /\ r.ok => r.ran = ClaimedOrder /\ Len(r.value) = 1
            /\ ~r.ok =>
                   \E n \in failing :
                       /\ \A m \in failing : n <= m
                       /\ r.variant = ClaimedVariant(n)
                       /\ r.error = ClaimedResult(n)
                       /\ r.ran = SubSeq(ClaimedOrder, 1, n)
                       /\ r.value = <<>>
            /\ ~parse.bytes.signature =>
                   ~r.ok /\ r.variant = "HeaderError"
                         /\ r.error = "InvalidSignature"

\* A parse that stopped at the image data parser although the image
\* resources parser would have failed too.
C5_Witness ==
    /\ parse.done
    /\ ~parse.result.ok
    /\ parse.result.variant = "ImageError"
    /\ parse.bytes.returns["ImageResourcesSection"] # "Ok"

(***************************************************************************)
(* Groups.  The layer and mask parser rebuilds the groups from the marker  *)
(* each layer record carries: "open" pushes a pending group whose lower    *)
(* bound is the current layer index, "close" pops the most recent pending  *)
(* group and closes its range at the current layer index, "layer" is a     *)
(* leaf.  A close with nothing pending, or a group still pending at the    *)
(* end, is a layer error.  contained_layers is the half-open index range   *)
(* start..end.                                                             *)
(***************************************************************************)
Markers == {"layer", "open", "close"}

\* A close that pops the oldest pending group.
PopOldest(pending) ==
    [group |-> pending[1], rest |-> SubSeq(pending, 2, Len(pending))]

\* The close marker's pop: the most recent pending group.
PopPending(pending) ==
    [group |-> pending[Len(pending)],
     rest |-> SubSeq(pending, 1, Len(pending) - 1)]

\* The parser's walk over the records from index idx on.
RECURSIVE ParseRecords(_, _, _, _)
ParseRecords(records, idx, pending, groups) ==
    IF idx >= Len(records)
    THEN IF pending # <<>>
         THEN [ok |-> FALSE, layers |-> <<>>, groups |-> <<>>]
         ELSE [ok |-> TRUE,
               layers |-> [i \in 1..Len(records) |->
                              [name |-> i - 1, marker |-> records[i]]],
               groups |-> groups]
    ELSE LET m == records[idx + 1]
         IN  IF m = "open"
             THEN ParseRecords(records, idx + 1,
                      Append(pending,
                             [id |-> Len(pending) + Cardinality(DOMAIN groups),
                              start |-> idx]),
                      groups)
             ELSE IF m = "close"
             THEN IF pending = <<>>
                  THEN [ok |-> FALSE, layers |-> <<>>, groups |-> <<>>]
                  ELSE LET pop == PopPending(pending)
                       IN  ParseRecords(records, idx + 1, pop.rest,
                               (pop.group.id :>
                                   [contained_layers |->
                                       [start |-> pop.group.start,
                                        end |-> idx]]) @@ groups)
             ELSE ParseRecords(records, idx + 1, pending, groups)

LayerAndMaskInformationSection_from_bytes(records) ==
    ParseRecords(records, 0, <<>>, <<>>)

\* self.groups()
groups(section) == section.groups

\* Psd::get_group_sub_layers: None for an unknown id; otherwise the slice
\* layers[contained_layers], which panics when the range does not lie in
\* the layer list.
get_group_sub_layers(section, id) ==
    IF id \in DOMAIN groups(section)
    THEN LET range == groups(section)[id].contained_layers
         IN  IF range.start > range.end \/ range.end > Len(section.layers)
             THEN [tag |-> "panic", slice |-> <<>>]
             ELSE [tag |-> "Some",
                   slice |-> SubSeq(section.layers, range.start + 1, range.end)]
    ELSE [tag |-> "None", slice |-> <<>>]

RecordLists == UNION {[1..n -> Markers] : n \in 0..MaxRecords}

NoQuery == [asked |-> FALSE, id |-> 0, result |-> [tag |-> "None", slice |-> <<>>]]

InitGroups ==
    /\ grp \in [records : RecordLists, parsed : {FALSE},
                section : {[ok |-> FALSE, layers |-> <<>>, groups |-> <<>>]},
                query : {NoQuery}]
    /\ psd = None
    /\ call = NoCall
    /\ fresh = NoFresh
    /\ parse = None

\* LayerAndMaskInformationSection::from_bytes, within Psd::from_bytes.
ParseLayers ==
    /\ ~grp.parsed
    /\ grp' = [grp EXCEPT !.parsed = TRUE,
                   !.section = LayerAndMaskInformationSection_from_bytes(grp.records)]
    /\ UNCHANGED <<psd, call, fresh, parse>>

\* psd.get_group_sub_layers(&id) on a successfully parsed document.
GetGroupSubLayers(id) ==
    /\ grp.parsed /\ grp.section.ok
    /\ grp' = [grp EXCEPT !.query =
                   [asked |-> TRUE, id |-> id,
                    result |-> get_group_sub_layers(grp.section, id)]]
    /\ UNCHANGED <<psd, call, fresh, parse>>

NextGroups ==
    \/ ParseLayers
    \/ \E id \in 0..MaxRecords : GetGroupSubLayers(id)

SpecGroups == InitGroups /\ [][NextGroups]_vars

GroupIds == DOMAIN grp.section.groups

RangeOf(id) == grp.section.groups[id].contained_layers

Disjoint(a, b) == a.end <= b.start \/ b.end <= a.start

Within(a, b) == b.start <= a.start /\ a.end <= b.end

\* Every range lies in the layer list, and a lookup never indexes out of
\* range and returns None only for an unknown id.
RangesInBounds ==
    /\ \A id \in GroupIds :
           /\ 0 <= RangeOf(id).start
           /\ RangeOf(id).start <= RangeOf(id).end
           /\ RangeOf(id).end <= Len(grp.section.layers)
    /\ grp.query.asked =>
           /\ grp.query.result.tag # "panic"
           /\ grp.query.result.tag = "None" <=> grp.query.id \notin GroupIds

\* C8 as stated: after a successful parse every group's range lies in the
\* layer list and the ranges of two distinct groups never overlap.
C8_RangesNeverOverlap ==
    (grp.parsed /\ grp.section.ok) =>
        /\ RangesInBounds
        /\ \A a, b \in GroupIds :
               a # b => Disjoint(RangeOf(a), RangeOf(b))

\* C8 as amended: after a successful parse every group's range lies in the
\* layer list and the ranges of two distinct groups are disjoint or one lies
\* within the other.
C8_RangesNestOrDisjoint ==
    (grp.parsed /\ grp.section.ok) =>
        /\ RangesInBounds
        /\ \A a, b \in GroupIds :
               a # b => \/ Disjoint(RangeOf(a), RangeOf(b))
                        \/ Within(RangeOf(a), RangeOf(b))
                        \/ Within(RangeOf(b), RangeOf(a))

\* A parsed document with a group nested in another, asked for the sub
\* layers of one of them.
C8_Witness ==
    /\ grp.parsed /\ grp.section.ok
    /\ grp.query.asked /\ grp.query.result.tag = "Some"
    /\ \E a, b \in GroupIds :
           /\ a # b
           /\ Within(RangeOf(a), RangeOf(b))
           /\ grp.query.id = a

====
